---- MODULE Spec2Model ----
(***************************************************************************)
(* A model of snow.cpp: the colour conversions, the compositor, the        *)
(* clipped rectangle fill, the particle pool and UpdateAndRender.          *)
(*                                                                         *)
(* Numbers.  A double that holds a position is a fixed-point integer in    *)
(* units of 1/PosScale pixel (2.5 is 5 half-pixels); a double that holds a *)
(* colour channel is a fixed-point integer in units of 1/NormScale, which  *)
(* is coarser than an IEEE double, so every rounding the code relies on is *)
(* exercised with a larger error than the real one; secondsElapsed is an   *)
(* integer number of 1/SecUnit seconds.  A packed colour is the record of  *)
(* its four 8-bit channels (the union Color: argb, or b, g, r, a).         *)
(*                                                                         *)
(* render.h, snow.h and math.cpp are not part of the sources at hand: the  *)
(* helpers they define (RoundDoubleToInt32, RoundDoubleToUInt32, Lerp,     *)
(* Min, Random, RandomPercent, Assert) and the layout of State follow the  *)
(* specification's description of them.                                    *)
(*                                                                         *)
(* The state block is zero-filled by the host when the run starts:         *)
(* UpdateAndRender reads state->ticks, the last slot's link and every      *)
(* slot's lifetime without ever having written them, and                   *)
(* memory->isInitialized before setting it.  The pixel buffer is not       *)
(* initialized: its contents at the start are arbitrary.                   *)
(***************************************************************************)
EXTENDS Integers, Sequences, FiniteSets, TLC

VARIABLES
  pc,                 \* position inside UpdateAndRender: idle, fill, spawn, simulate, crashed (off: not in use)
  memorySize,         \* memory->size
  isInitialized,      \* memory->isInitialized
  randomSeed,         \* the global randomSeed[2]: zero, seeded, advanced
  particles,          \* state->particles
  availableParticle,  \* state->availableParticle: a slot index or NULL
  ticks,              \* state->ticks
  buffer,             \* the FrameBuffer: width, height, pitch (in pixels) and bitmap
  secondsElapsed,     \* the argument of the invocation in progress
  acquired,           \* history: the slots the spawn step has checked out
  lastSpawn,          \* history: the slot the spawn step of this invocation initialized, or NULL
  spawnedAt,          \* history: for each slot, the tick counter when it was spawned, or NULL
  initRuns,           \* history: how many times first-time setup has run
  probe,              \* the arguments of a pure function under test
  result              \* what the function returned

vars == <<pc, memorySize, isInitialized, randomSeed, particles, availableParticle,
          ticks, buffer, secondsElapsed, acquired, lastSpawn, spawnedAt, initRuns, probe, result>>

simVars == <<pc, memorySize, isInitialized, randomSeed, particles, availableParticle,
             ticks, buffer, secondsElapsed, acquired, lastSpawn, spawnedAt, initRuns>>

----------------------------------------------------------------------------
(* Bounds of the model *)

\* ArrayLength(state->particles): the pool's capacity N
NumParticles == 3

\* invocations of UpdateAndRender in one run
MaxTicks == 7

\* invocations of UpdateAndRender in one long run: enough for the first slots to expire
MaxLongTicks == 204

----------------------------------------------------------------------------
(* Representation of the numbers *)

\* positions are in half-pixels: the radius 2.5f is the finest fraction the code uses
PosScale == 2

\* colour channels of a DoubleColor are in units of 1/65536
NormScale == 65536

\* secondsElapsed is in units of 1/320 s, so that 160 * secondsElapsed is a whole number of half-pixels
SecUnit == 320

NULL == -1

Slots == 0 .. NumParticles - 1

Bytes == 0 .. 255

\* the double nearest to the decimal literal n/d
Literal(n, d) == (2 * n * NormScale + d) \div (2 * d)

Min(a, b) == IF a < b THEN a ELSE b

\* nearest integer to the non-negative num/den, halves upward
RoundDoubleToUInt32(num, den) == (2 * num + den) \div (2 * den)

\* nearest integer to the position h (in 1/PosScale), halves away from zero
RoundDoubleToInt32(h) ==
  IF h >= 0 THEN (2 * h + PosScale) \div (2 * PosScale)
            ELSE -((2 * (-h) + PosScale) \div (2 * PosScale))

----------------------------------------------------------------------------
(* Color Model *)

Color(a, r, g, b) == [a |-> a, r |-> r, g |-> g, b |-> b]

\* a double result stored into a uint8_t channel
ToUInt8(n) == n % 256

\* GetColor with the product cast to an integer instead of rounded
GetColorTruncating(c) ==
  [a |-> ToUInt8((c.a * 255) \div NormScale),
   r |-> ToUInt8((c.r * 255) \div NormScale),
   g |-> ToUInt8((c.g * 255) \div NormScale),
   b |-> ToUInt8((c.b * 255) \div NormScale)]

GetColor(c) ==
  [a |-> ToUInt8(RoundDoubleToUInt32(c.a * 255, NormScale)),
   r |-> ToUInt8(RoundDoubleToUInt32(c.r * 255, NormScale)),
   g |-> ToUInt8(RoundDoubleToUInt32(c.g * 255, NormScale)),
   b |-> ToUInt8(RoundDoubleToUInt32(c.b * 255, NormScale))]

\* (double) channel / 255.0f, rounded to the nearest representable value
GetDoubleColor(c) ==
  [a |-> Literal(c.a, 255),
   r |-> Literal(c.r, 255),
   g |-> Literal(c.g, 255),
   b |-> Literal(c.b, 255)]

----------------------------------------------------------------------------
(* Compositor *)

\* Lerp(a, b, t) with t = t[1]/t[2]: b + t * (a - b), as the fraction <<numerator, denominator>>
Lerp(a, b, t) == <<b * t[2] + t[1] * (a - b), t[2]>>

\* the conversion taking the nearest whole number instead of dropping the fraction
DoubleToUInt8Nearest(q) == ToUInt8((2 * q[1] + q[2]) \div (2 * q[2]))

\* a non-negative double converted to a uint8_t channel: the fraction is dropped
DoubleToUInt8(q) == ToUInt8(q[1] \div q[2])

\* Composite with the two colours handed to Lerp in the other order
CompositeSwapped(src, dest) ==
  LET percent == <<src.a, 255>>
  IN  [a |-> src.a,
       r |-> DoubleToUInt8(Lerp(dest.r, src.r, percent)),
       g |-> DoubleToUInt8(Lerp(dest.g, src.g, percent)),
       b |-> DoubleToUInt8(Lerp(dest.b, src.b, percent))]

Composite(src, dest) ==
  LET percent == <<src.a, 255>>
  IN  [a |-> src.a,
       r |-> DoubleToUInt8(Lerp(src.r, dest.r, percent)),
       g |-> DoubleToUInt8(Lerp(src.g, dest.g, percent)),
       b |-> DoubleToUInt8(Lerp(src.b, dest.b, percent))]

----------------------------------------------------------------------------
(* Rasterizer *)

\* the bitmap is indexed in pixels (pixelBytes = 4): pitch is the pixels per row, padding included
GetPixel(buf, x, y) == x + y * buf.pitch

ClampMin(v) == IF v < 0 THEN 0 ELSE v

\* ClipRect with the right edge clamped to the row's pitch instead of the width
ClipRectToPitch(buf, realMinX, realMinY, realMaxX, realMaxY) ==
  [minX |-> ClampMin(RoundDoubleToInt32(realMinX)),
   minY |-> ClampMin(RoundDoubleToInt32(realMinY)),
   maxX |-> Min(buf.pitch, RoundDoubleToInt32(realMaxX)),
   maxY |-> Min(buf.height, RoundDoubleToInt32(realMaxY))]

\* ClipRect with the far edges clamped to the last pixel instead of one past it
ClipRectShort(buf, realMinX, realMinY, realMaxX, realMaxY) ==
  [minX |-> ClampMin(RoundDoubleToInt32(realMinX)),
   minY |-> ClampMin(RoundDoubleToInt32(realMinY)),
   maxX |-> Min(buf.width - 1, RoundDoubleToInt32(realMaxX)),
   maxY |-> Min(buf.height - 1, RoundDoubleToInt32(realMaxY))]

\* FillRect's rounding and clamping of its four bounds (positions in 1/PosScale)
ClipRect(buf, realMinX, realMinY, realMaxX, realMaxY) ==
  [minX |-> ClampMin(RoundDoubleToInt32(realMinX)),
   minY |-> ClampMin(RoundDoubleToInt32(realMinY)),
   maxX |-> Min(buf.width, RoundDoubleToInt32(realMaxX)),
   maxY |-> Min(buf.height, RoundDoubleToInt32(realMaxY))]

\* the bitmap indices FillRect's two loops store to: row starts at GetPixel(minX, minY)
\* and advances by pitch, pixel advances by one
FillRectWrites(buf, realMinX, realMinY, realMaxX, realMaxY) ==
  LET c == ClipRect(buf, realMinX, realMinY, realMaxX, realMaxY)
  IN  { GetPixel(buf, c.minX, c.minY) + (y - c.minY) * buf.pitch + (x - c.minX) :
          x \in c.minX .. c.maxX - 1, y \in c.minY .. c.maxY - 1 }

\* what FillRect stores to one pixel: the colour itself, or the blend with what is there
ShadePixel(srcColor, destColor) ==
  IF srcColor.a = 1 THEN srcColor ELSE Composite(srcColor, destColor)

\* the bitmap after FillRect (each pixel is read and stored once, so the order of the loops does not matter)
FillRect(buf, realMinX, realMinY, realMaxX, realMaxY, srcColor) ==
  LET w == FillRectWrites(buf, realMinX, realMinY, realMaxX, realMaxY)
  IN  [i \in DOMAIN buf.bitmap |->
         IF i \in w THEN ShadePixel(srcColor, buf.bitmap[i]) ELSE buf.bitmap[i]]

----------------------------------------------------------------------------
(* Particles *)

SpawnLifetime == 200

FallSpeed == 160

ZeroColor == [a |-> 0, r |-> 0, g |-> 0, b |-> 0]

\* a slot of the zero-filled state block
ZeroParticle ==
  [x |-> 0, y |-> 0, radius |-> 0, color |-> ZeroColor, lifetime |-> 0, next |-> NULL]

\* DrawParticle with the far edges of the square one pixel further out
DrawParticleInclusive(buf, p) ==
  FillRect(buf, p.x - p.radius, p.y - p.radius,
           p.x + p.radius + PosScale, p.y + p.radius + PosScale, GetColor(p.color))

DrawParticle(buf, p) ==
  FillRect(buf, p.x - p.radius, p.y - p.radius, p.x + p.radius, p.y + p.radius,
           GetColor(p.color))

\* InitParticle clearing the slot's link as well
InitParticleClearNext(buf, p, random, percent) ==
  LET radius == (5 * PosScale) \div 2
  IN  [p EXCEPT !.radius = radius,
                !.x = (random % buf.width) * PosScale,
                !.y = -2 * radius,
                !.color = [a |-> NormScale \div 4 + (3 * percent) \div 4,
                           r |-> Literal(55, 100),
                           g |-> Literal(9, 10),
                           b |-> NormScale],
                !.lifetime = SpawnLifetime,
                !.next = NULL]

\* InitParticle with x drawn from [0, width] instead of [0, width)
InitParticleWide(buf, p, random, percent) ==
  LET radius == (5 * PosScale) \div 2
  IN  [p EXCEPT !.radius = radius,
                !.x = (random % (buf.width + 1)) * PosScale,
                !.y = -2 * radius,
                !.color = [a |-> NormScale \div 4 + (3 * percent) \div 4,
                           r |-> Literal(55, 100),
                           g |-> Literal(9, 10),
                           b |-> NormScale],
                !.lifetime = SpawnLifetime]

\* random is the value Random() returns, percent the value RandomPercent() returns (in 1/NormScale)
InitParticle(buf, p, random, percent) ==
  LET radius == (5 * PosScale) \div 2
  IN  [p EXCEPT !.radius = radius,
                !.x = (random % buf.width) * PosScale,
                !.y = -2 * radius,
                !.color = [a |-> NormScale \div 4 + (3 * percent) \div 4,
                           r |-> Literal(55, 100),
                           g |-> Literal(9, 10),
                           b |-> NormScale],
                !.lifetime = SpawnLifetime]

\* AnimateParticle with the lifetime counted down by the elapsed time instead of by one
AnimateParticleByTime(p, seconds) ==
  [p EXCEPT !.x = @ + 0,
            !.y = @ + (FallSpeed * seconds * PosScale) \div SecUnit,
            !.lifetime = @ - seconds]

AnimateParticle(p, seconds) ==
  [p EXCEPT !.x = @ + 0,
            !.y = @ + (FallSpeed * seconds * PosScale) \div SecUnit,
            !.lifetime = @ - 1]

----------------------------------------------------------------------------
(* Particle Pool *)

\* sizeof(State) in words: one per slot, the free-list head and the tick counter
SizeofState == NumParticles + 2

\* LinkFreeList with the loop started one slot too low
LinkFreeListShort(ps) ==
  [i \in Slots |-> IF i <= NumParticles - 3 THEN [ps[i] EXCEPT !.next = i + 1] ELSE ps[i]]

\* the loop that links slot i to slot i + 1, from slot N - 2 down to slot 0
LinkFreeList(ps) ==
  [i \in Slots |-> IF i <= NumParticles - 2 THEN [ps[i] EXCEPT !.next = i + 1] ELSE ps[i]]

\* Acquire that recycles slot 0 when it takes the last free slot
AcquireWrapping(head, ps) ==
  IF head # NULL
    THEN [slot |-> head, head |-> IF ps[head].next = NULL THEN 0 ELSE ps[head].next]
    ELSE [slot |-> NULL, head |-> head]

\* Acquire leaving the head where it is
AcquireNoAdvance(head, ps) ==
  IF head # NULL THEN [slot |-> head, head |-> head]
                 ELSE [slot |-> NULL, head |-> head]

\* the pop of the spawn step: the slot obtained (or NULL) and the new head
Acquire(head, ps) ==
  IF head # NULL THEN [slot |-> head, head |-> ps[head].next]
                 ELSE [slot |-> NULL, head |-> head]

----------------------------------------------------------------------------
(* Simulation Step *)

\* the condition UpdateAndRender asserts
SizeAccepted(size) == SizeofState < size

\* first-time setup on every invocation
NeedsInitAlways(flag) == TRUE

\* the guard of first-time setup
NeedsInit(flag) == ~flag

\* the spawn test taken on every tick
IsSpawnTickAlways(t) == TRUE

\* the spawn test taken on odd ticks instead
IsSpawnTickOdd(t) == t % 2 = 1

\* the spawn test of UpdateAndRender
IsSpawnTick(t) == t % 2 = 0

Background == [a |-> NormScale, r |-> Literal(1, 100), g |-> Literal(2, 100), b |-> Literal(5, 100)]

\* the test of the per-slot pass never passing over a slot
ExpiredNever(p) == FALSE

\* the test of the per-slot pass passing over every slot whose lifetime is below one
ExpiredAtZero(p) == p.lifetime < 1

\* the slot is skipped by the per-slot pass
Expired(p) == p.lifetime # 0 /\ p.lifetime < 1

\* the per-slot pass leaving the loop at the first expired slot instead of passing over it
RECURSIVE SimulateFromStopAtExpired(_, _, _, _)
SimulateFromStopAtExpired(i, ps, buf, seconds) ==
  IF i >= NumParticles THEN [particles |-> ps, bitmap |-> buf.bitmap]
  ELSE IF Expired(ps[i]) THEN [particles |-> ps, bitmap |-> buf.bitmap]
  ELSE LET p == AnimateParticle(ps[i], seconds)
       IN  SimulateFromStopAtExpired(i + 1, [ps EXCEPT ![i] = p],
                                     [buf EXCEPT !.bitmap = DrawParticle(buf, p)], seconds)

\* the per-slot pass from slot i on: the particles and the bitmap it leaves
RECURSIVE SimulateFrom(_, _, _, _)
SimulateFrom(i, ps, buf, seconds) ==
  IF i >= NumParticles THEN [particles |-> ps, bitmap |-> buf.bitmap]
  ELSE IF Expired(ps[i]) THEN SimulateFrom(i + 1, ps, buf, seconds)
  ELSE LET p == AnimateParticle(ps[i], seconds)
       IN  SimulateFrom(i + 1, [ps EXCEPT ![i] = p],
                        [buf EXCEPT !.bitmap = DrawParticle(buf, p)], seconds)

NoProbe == [kind |-> "none"]

\* the frame buffers the host may hand in: width, height, pitch
BufferShapes ==
  { [width |-> 1, height |-> 1, pitch |-> 1],
    [width |-> 2, height |-> 1, pitch |-> 3],
    [width |-> 2, height |-> 2, pitch |-> 2] }

GarbagePixels == << Color(0, 0, 0, 0), Color(255, 255, 255, 255), Color(1, 200, 100, 50) >>

\* an uninitialized bitmap
Garbage(shape, k) ==
  [i \in 0 .. shape.pitch * shape.height - 1 |-> GarbagePixels[((i + k) % 3) + 1]]

GarbageSeeds == {0, 1}

\* secondsElapsed of a frame, in 1/SecUnit s
SecondsValues == {0, 4}

\* values of Random()
RandomValues == {0, 1, 7}

\* values of RandomPercent(), in 1/NormScale
PercentValues == {0, NormScale}

Init ==
  /\ pc = "idle"
  /\ memorySize \in {SizeofState - 1, SizeofState, SizeofState + 1}
  /\ isInitialized = FALSE
  /\ randomSeed = "zero"
  /\ particles = [i \in Slots |-> ZeroParticle]
  /\ availableParticle = NULL
  /\ ticks = 0
  /\ \E shape \in BufferShapes, k \in GarbageSeeds :
       buffer = [width |-> shape.width, height |-> shape.height, pitch |-> shape.pitch,
                 bitmap |-> Garbage(shape, k)]
  /\ secondsElapsed = 0
  /\ acquired = {}
  /\ lastSpawn = NULL
  /\ spawnedAt = [i \in Slots |-> NULL]
  /\ initRuns = 0
  /\ probe = NoProbe
  /\ result = NoProbe

\* UpdateAndRender is entered: the assertion on the block's size, then first-time setup
\* (limit bounds the invocations of the run)
EnterWithin(limit, seconds) ==
  /\ pc = "idle"
  /\ ticks < limit
  /\ IF ~SizeAccepted(memorySize)
       THEN /\ pc' = "crashed"
            /\ UNCHANGED <<isInitialized, randomSeed, particles, availableParticle,
                           secondsElapsed, initRuns>>
       ELSE /\ pc' = "fill"
            /\ secondsElapsed' = seconds
            /\ IF NeedsInit(isInitialized)
                 THEN /\ randomSeed' = "seeded"
                      /\ particles' = LinkFreeList(particles)
                      /\ availableParticle' = 0
                      /\ isInitialized' = TRUE
                      /\ initRuns' = initRuns + 1
                 ELSE UNCHANGED <<isInitialized, randomSeed, particles, availableParticle,
                                  initRuns>>
  /\ UNCHANGED <<memorySize, ticks, buffer, acquired, lastSpawn, spawnedAt, probe, result>>

Enter(seconds) == EnterWithin(MaxTicks, seconds)

\* the background fill
Fill ==
  /\ pc = "fill"
  /\ buffer' = [buffer EXCEPT !.bitmap =
                  FillRect(buffer, 0, 0, buffer.width * PosScale, buffer.height * PosScale,
                           GetColor(Background))]
  /\ pc' = "spawn"
  /\ UNCHANGED <<memorySize, isInitialized, randomSeed, particles, availableParticle, ticks,
                 secondsElapsed, acquired, lastSpawn, spawnedAt, initRuns, probe, result>>

\* particle spawning
Spawn(random, percent) ==
  /\ pc = "spawn"
  /\ IF IsSpawnTick(ticks) /\ availableParticle # NULL
       THEN LET got == Acquire(availableParticle, particles)
            IN  /\ availableParticle' = got.head
                /\ particles' = [particles EXCEPT ![got.slot] =
                                   InitParticle(buffer, @, random, percent)]
                /\ randomSeed' = "advanced"
                /\ acquired' = acquired \cup {got.slot}
                /\ lastSpawn' = got.slot
                /\ spawnedAt' = [spawnedAt EXCEPT ![got.slot] = ticks]
       ELSE /\ lastSpawn' = NULL
            /\ UNCHANGED <<availableParticle, particles, randomSeed, acquired, spawnedAt>>
  /\ pc' = "simulate"
  /\ UNCHANGED <<memorySize, isInitialized, ticks, buffer, secondsElapsed, initRuns,
                 probe, result>>

\* the per-slot pass, then the tick counter
Simulate ==
  /\ pc = "simulate"
  /\ LET done == SimulateFrom(0, particles, buffer, secondsElapsed)
     IN  /\ particles' = done.particles
         /\ buffer' = [buffer EXCEPT !.bitmap = done.bitmap]
  /\ ticks' = ticks + 1
  /\ pc' = "idle"
  /\ UNCHANGED <<memorySize, isInitialized, randomSeed, availableParticle, secondsElapsed,
                 acquired, lastSpawn, spawnedAt, initRuns, probe, result>>

Next ==
  \/ \E seconds \in SecondsValues : Enter(seconds)
  \/ Fill
  \/ \E random \in RandomValues, percent \in PercentValues : Spawn(random, percent)
  \/ Simulate

Spec == Init /\ [][Next]_vars

----------------------------------------------------------------------------
(* A long run: one buffer, one frame time, so that particles live out their lifetime *)

\* a buffer wider than a particle: width, height, pitch
LongShape == [width |-> 7, height |-> 2, pitch |-> 8]

\* secondsElapsed of every frame of the long run, in 1/SecUnit s: half a pixel per frame
LongSecondsValues == {1}

\* values of Random() in the long run
LongRandomValues == {0, 5}

\* values of RandomPercent() in the long run, in 1/NormScale
LongPercentValues == {0}

InitLong ==
  /\ pc = "idle"
  /\ memorySize = SizeofState + 1
  /\ isInitialized = FALSE
  /\ randomSeed = "zero"
  /\ particles = [i \in Slots |-> ZeroParticle]
  /\ availableParticle = NULL
  /\ ticks = 0
  /\ buffer = [width |-> LongShape.width, height |-> LongShape.height,
               pitch |-> LongShape.pitch, bitmap |-> Garbage(LongShape, 0)]
  /\ secondsElapsed = 0
  /\ acquired = {}
  /\ lastSpawn = NULL
  /\ spawnedAt = [i \in Slots |-> NULL]
  /\ initRuns = 0
  /\ probe = NoProbe
  /\ result = NoProbe

EnterLong(seconds) == EnterWithin(MaxLongTicks, seconds)

NextLong ==
  \/ \E seconds \in LongSecondsValues : EnterLong(seconds)
  \/ Fill
  \/ \E random \in LongRandomValues, percent \in LongPercentValues : Spawn(random, percent)
  \/ Simulate

SpecLong == InitLong /\ [][NextLong]_vars

----------------------------------------------------------------------------
(* The pure functions, applied to arguments drawn from bounded sets *)

\* the simulation's variables while a pure function is under test
Off ==
  /\ pc = "off"
  /\ memorySize = SizeofState + 1
  /\ isInitialized = FALSE
  /\ randomSeed = "zero"
  /\ particles = [i \in Slots |-> ZeroParticle]
  /\ availableParticle = NULL
  /\ ticks = 0
  /\ buffer = [width |-> 1, height |-> 1, pitch |-> 1, bitmap |-> [i \in {0} |-> ZeroColor]]
  /\ secondsElapsed = 0
  /\ acquired = {}
  /\ lastSpawn = NULL
  /\ spawnedAt = [i \in Slots |-> NULL]
  /\ initRuns = 0

AlphaSamples == {0, 1, 64, 128, 254, 255}

ChannelSamples == {0, 1, 127, 128, 200, 254, 255}

Ends == {0, 255}

CompositeProbes ==
  { [kind |-> "Composite", src |-> Color(a, r, g, b), dest |-> Color(da, dr, dg, db)] :
      a \in AlphaSamples, r \in ChannelSamples, g \in Ends, b \in {7, 200},
      da \in Ends, dr \in ChannelSamples, dg \in Ends, db \in {7, 200} }

\* an opaque source over a destination: every pair of values of the red channel
OpaqueProbes ==
  { [kind |-> "Composite", src |-> Color(255, r, 255 - r, 7), dest |-> Color(da, dr, 200, dr)] :
      r \in Bytes, dr \in Bytes, da \in {255} }

\* every value of one channel, with the other three at their ends
RoundTripProbes ==
  { [kind |-> "RoundTrip", c |-> Color(v, s, t, u)] : v \in Bytes, s \in Ends, t \in Ends, u \in Ends }
  \cup { [kind |-> "RoundTrip", c |-> Color(s, v, t, u)] : v \in Bytes, s \in Ends, t \in Ends, u \in Ends }
  \cup { [kind |-> "RoundTrip", c |-> Color(s, t, v, u)] : v \in Bytes, s \in Ends, t \in Ends, u \in Ends }
  \cup { [kind |-> "RoundTrip", c |-> Color(s, t, u, v)] : v \in Bytes, s \in Ends, t \in Ends, u \in Ends }

InitColor ==
  /\ Off
  /\ probe \in CompositeProbes \cup OpaqueProbes \cup RoundTripProbes
  /\ result = NoProbe

ApplyComposite ==
  /\ probe.kind = "Composite"
  /\ result = NoProbe
  /\ result' = [kind |-> "Composite", value |-> Composite(probe.src, probe.dest)]
  /\ UNCHANGED <<probe, simVars>>

ApplyRoundTrip ==
  /\ probe.kind = "RoundTrip"
  /\ result = NoProbe
  /\ result' = [kind |-> "RoundTrip", value |-> GetColor(GetDoubleColor(probe.c))]
  /\ UNCHANGED <<probe, simVars>>

NextColor == ApplyComposite \/ ApplyRoundTrip

SpecColor == InitColor /\ [][NextColor]_vars

\* rectangle bounds, in half-pixels
RectCoords == {-5, -1, 0, 1, 3, 4, 7}

FillColors == {Color(255, 3, 5, 13), Color(128, 140, 230, 255), Color(1, 140, 230, 255)}

FillRectProbes ==
  { [kind |-> "FillRect",
     buf |-> [width |-> shape.width, height |-> shape.height, pitch |-> shape.pitch,
              bitmap |-> Garbage(shape, 0)],
     minX |-> x0, minY |-> y0, maxX |-> x1, maxY |-> y1, color |-> c] :
      shape \in BufferShapes, x0 \in RectCoords, y0 \in RectCoords,
      x1 \in RectCoords, y1 \in RectCoords, c \in FillColors }

InitFillRect ==
  /\ Off
  /\ probe \in FillRectProbes
  /\ result = NoProbe

ApplyFillRect ==
  /\ probe.kind = "FillRect"
  /\ result = NoProbe
  /\ result' = [kind |-> "FillRect",
                writes |-> FillRectWrites(probe.buf, probe.minX, probe.minY,
                                          probe.maxX, probe.maxY),
                bitmap |-> FillRect(probe.buf, probe.minX, probe.minY,
                                    probe.maxX, probe.maxY, probe.color)]
  /\ UNCHANGED <<probe, simVars>>

NextFillRect == ApplyFillRect

SpecFillRect == InitFillRect /\ [][NextFillRect]_vars

\* secondsElapsed, in 1/SecUnit s: none, one unit, a frame, two seconds, a hundred seconds
AnimateSeconds == {0, 1, 4, 640, 32000}

AnimateProbes ==
  { [kind |-> "Animate",
     p |-> [ZeroParticle EXCEPT !.lifetime = l, !.y = y, !.x = x, !.radius = 5],
     seconds |-> t] :
      l \in 0 .. SpawnLifetime, y \in {-10, 0}, x \in {0, 2}, t \in AnimateSeconds }

InitAnimate ==
  /\ Off
  /\ probe \in AnimateProbes
  /\ result = NoProbe

ApplyAnimate ==
  /\ probe.kind = "Animate"
  /\ result = NoProbe
  /\ result' = [kind |-> "Animate", value |-> AnimateParticle(probe.p, probe.seconds)]
  /\ UNCHANGED <<probe, simVars>>

NextAnimate == ApplyAnimate

SpecAnimate == InitAnimate /\ [][NextAnimate]_vars

----------------------------------------------------------------------------
(* The claims *)

\* the slots that up to `fuel` successive Acquire calls return, stopping at the first NULL
RECURSIVE AcquireAll(_, _, _)
AcquireAll(head, ps, fuel) ==
  IF fuel = 0 THEN <<>>
  ELSE LET got == Acquire(head, ps)
       IN  IF got.slot = NULL THEN <<>>
           ELSE <<got.slot>> \o AcquireAll(got.head, ps, fuel - 1)

\* first-time setup has just run
JustInitialized == pc = "fill" /\ ticks = 0

\* C1: right after first-time initialization of a pool of N slots, of N + 1 successive
\* Acquire calls exactly the first N return a slot, each a slot of the array distinct
\* from the earlier ones, and call N + 1 returns none.
C1_FreeListIntegrity ==
  JustInitialized =>
    LET got == AcquireAll(availableParticle, particles, NumParticles + 1)
    IN  /\ Len(got) = NumParticles
        /\ \A i \in 1 .. Len(got) : got[i] \in Slots
        /\ \A i, j \in 1 .. Len(got) : i # j => got[i] # got[j]

C1_Witness ==
  /\ JustInitialized
  /\ availableParticle = 0
  /\ Len(AcquireAll(availableParticle, particles, NumParticles + 1)) = NumParticles

\* the indices of the pixels inside the buffer's width and height
Visible(buf) == { GetPixel(buf, x, y) : x \in 0 .. buf.width - 1, y \in 0 .. buf.height - 1 }

\* the rectangle of a FillRect probe lies outside the buffer, or is empty once clamped
ProbeRectOutside ==
  LET x0 == RoundDoubleToInt32(probe.minX)
      y0 == RoundDoubleToInt32(probe.minY)
      x1 == RoundDoubleToInt32(probe.maxX)
      y1 == RoundDoubleToInt32(probe.maxY)
      cx0 == IF x0 < 0 THEN 0 ELSE x0
      cy0 == IF y0 < 0 THEN 0 ELSE y0
      cx1 == IF x1 > probe.buf.width THEN probe.buf.width ELSE x1
      cy1 == IF y1 > probe.buf.height THEN probe.buf.height ELSE y1
  IN  \/ x1 <= 0 \/ y1 <= 0 \/ x0 >= probe.buf.width \/ y0 >= probe.buf.height
      \/ cx0 >= cx1 \/ cy0 >= cy1

\* C2: FillRect stores only to pixels (x, y) with 0 <= x < width and 0 <= y < height
\* (never to a row's padding, never outside the bitmap), leaves every other pixel as it
\* was, and stores nothing when the rectangle lies outside the buffer or is empty once clamped.
C2_Clipping ==
  result.kind = "FillRect" =>
    /\ \A i \in result.writes :
         i >= 0 /\ i % probe.buf.pitch < probe.buf.width /\ i \div probe.buf.pitch < probe.buf.height
    /\ \A i \in DOMAIN probe.buf.bitmap :
         i \notin Visible(probe.buf) => result.bitmap[i] = probe.buf.bitmap[i]
    /\ ProbeRectOutside => result.writes = {} /\ result.bitmap = probe.buf.bitmap

\* a rectangle that sticks out of a padded buffer on every side has been filled
C2_Witness ==
  /\ result.kind = "FillRect"
  /\ probe.buf.pitch > probe.buf.width
  /\ probe.minX < 0 /\ probe.minY < 0
  /\ probe.maxX > probe.buf.width * PosScale /\ probe.maxY > probe.buf.height * PosScale
  /\ result.writes = Visible(probe.buf)

C4_BackgroundFill ==
  pc = "spawn" => \A i \in Visible(buffer) : buffer.bitmap[i] = Color(255, 3, 5, 13)

\* the first invocation has filled a two by two buffer that held garbage
C4_Witness ==
  /\ pc = "spawn" /\ ticks = 0
  /\ buffer.width = 2 /\ buffer.height = 2
  /\ \A i \in Visible(buffer) : buffer.bitmap[i] = Color(255, 3, 5, 13)

\* C5: Composite(src, dst) with src.alpha = 255 is src itself, for every dst.
C5_OpaqueCompositeIsOverwrite ==
  (result.kind = "Composite" /\ probe.src.a = 255) => result.value = probe.src

C5_Witness ==
  /\ result.kind = "Composite" /\ probe.src.a = 255
  /\ probe.dest # probe.src /\ probe.dest.r # probe.src.r
  /\ result.value = probe.src

\* C6 (as claimed): a block of at least sizeof(State) bytes is accepted.
C6_AtLeastSizeofStateAccepted ==
  memorySize >= SizeofState => pc # "crashed"

\* C7: a slot the spawn step has just acquired and initialized has radius 2.5, y = -5.0,
\* x in [0, width), colour alpha in [0.25, 1.0] and lifetime 200.
C7_SpawnGeometry ==
  (pc = "simulate" /\ lastSpawn # NULL) =>
    LET p == particles[lastSpawn]
    IN  /\ 2 * p.radius = 5 * PosScale
        /\ p.y = -5 * PosScale
        /\ 0 <= p.x /\ p.x < buffer.width * PosScale
        /\ NormScale <= 4 * p.color.a /\ p.color.a <= NormScale
        /\ p.lifetime = 200

\* a slot has been spawned at the right edge of a buffer two pixels wide
C7_Witness ==
  /\ pc = "simulate" /\ lastSpawn # NULL
  /\ buffer.width = 2
  /\ particles[lastSpawn].x = PosScale
  /\ particles[lastSpawn].lifetime = 200

\* C8: AnimateParticle lowers the lifetime by exactly 1 whatever secondsElapsed is; it
\* moves y by 160 units per second and leaves every other field alone.
C8_LifetimeDecrement ==
  result.kind = "Animate" =>
    /\ result.value.lifetime = probe.p.lifetime - 1
    /\ (result.value.y - probe.p.y) * SecUnit = 160 * probe.seconds * PosScale
    /\ result.value = [probe.p EXCEPT !.lifetime = result.value.lifetime, !.y = result.value.y]

\* a particle has been animated with a large secondsElapsed
C8_Witness ==
  /\ result.kind = "Animate"
  /\ probe.seconds = 32000
  /\ probe.p.lifetime = 200 /\ result.value.lifetime = 199

\* C9: GetColor(GetDoubleColor(c)) = c in all four channels, for every packed colour c.
C9_RoundTrip ==
  result.kind = "RoundTrip" => result.value = probe.c

C9_Witness ==
  /\ result.kind = "RoundTrip"
  /\ probe.c = Color(255, 0, 1, 0)
  /\ result.value = probe.c

\* C10: the initialized flag is never cleared; first-time setup runs once, in the first
\* invocation, where it seeds the random source and sets the head to slot 0; no later
\* invocation's entry relinks the slots, resets the head or seeds again.
C10_InitOnce ==
  [][/\ isInitialized => isInitialized'
     /\ initRuns' <= 1
     /\ (~isInitialized /\ isInitialized') =>
          ticks = 0 /\ availableParticle' = 0 /\ randomSeed' = "seeded"
          /\ particles' = LinkFreeList(particles)
     /\ (isInitialized /\ pc = "idle") =>
          /\ availableParticle' = availableParticle
          /\ particles' = particles
          /\ randomSeed' = randomSeed]_vars

\* a third invocation has been entered, setup having run once
C10_Witness ==
  /\ pc = "fill" /\ ticks = 2
  /\ isInitialized /\ initRuns = 1
  /\ availableParticle = 1

\* C11 (as claimed): every pixel FillRect stores to receives the colour itself when the
\* colour's alpha is 255, and Composite(colour, the pixel's previous value) for every
\* other alpha, alpha 1 included.
C11_OverwriteOnlyWhenOpaque ==
  result.kind = "FillRect" =>
    \A i \in result.writes :
      result.bitmap[i] = IF probe.color.a = 255 THEN probe.color
                         ELSE Composite(probe.color, probe.buf.bitmap[i])

\* the bitmap after drawing, in slot order from slot i on, the slots of `drawn` as they are in ps
RECURSIVE DrawSlots(_, _, _, _)
DrawSlots(i, drawn, ps, buf) ==
  IF i >= NumParticles THEN buf.bitmap
  ELSE IF i \in drawn
         THEN DrawSlots(i + 1, drawn, ps, [buf EXCEPT !.bitmap = DrawParticle(buf, ps[i])])
         ELSE DrawSlots(i + 1, drawn, ps, buf)

\* the distance a particle falls in the invocation in progress
FallOfFrame == (160 * secondsElapsed * PosScale) \div SecUnit

\* C12: the per-slot pass leaves a slot whose lifetime is nonzero and less than one as it
\* is and draws nothing for it; every other slot, acquired or not, has its lifetime
\* lowered by 1 and its y advanced, and is then drawn.
C12_PerSlotPass ==
  [][pc = "simulate" =>
       LET skipped == { i \in Slots : particles[i].lifetime # 0 /\ particles[i].lifetime < 1 }
       IN  /\ \A i \in skipped : particles'[i] = particles[i]
           /\ \A i \in Slots \ skipped :
                particles'[i] = [particles[i] EXCEPT !.lifetime = @ - 1, !.y = @ + FallOfFrame]
           /\ buffer'.bitmap = DrawSlots(0, Slots \ skipped, particles', buffer)]_vars

\* invocation 202 has passed over slot 0, expired, and animated slot 1 down to lifetime 0
C12_Witness ==
  /\ pc = "idle" /\ ticks = 202
  /\ spawnedAt[0] = 0 /\ particles[0].lifetime = -1
  /\ particles[1].lifetime = 0

\* C13: a slot is taken from the free list only in the spawn step of an invocation entered
\* with an even tick counter, where the head, when there is one, is taken; on an odd tick
\* counter nothing leaves the list; an invocation takes at most one slot and raises the
\* tick counter by exactly 1.
C13_SpawnCadence ==
  [][/\ (pc = "spawn" /\ ticks % 2 = 0 /\ availableParticle # NULL) =>
          /\ acquired' = acquired \cup {availableParticle}
          /\ availableParticle' = particles[availableParticle].next
     /\ (pc = "spawn" /\ ticks % 2 = 0 /\ availableParticle = NULL) =>
          /\ acquired' = acquired
          /\ availableParticle' = NULL
     /\ (pc = "spawn" /\ ticks % 2 = 1) =>
          /\ acquired' = acquired
          /\ availableParticle' = availableParticle
          /\ particles' = particles
     /\ pc # "spawn" => acquired' = acquired
     /\ Cardinality(acquired') <= Cardinality(acquired) + 1
     /\ ticks' = IF pc = "simulate" THEN ticks + 1 ELSE ticks]_vars

\* the spawn step of the invocation entered with tick counter 3 has taken nothing although
\* slot 2 is still on the free list
C13_Witness ==
  /\ pc = "simulate" /\ ticks = 3
  /\ lastSpawn = NULL
  /\ acquired = {0, 1} /\ availableParticle = 2

\* the slots met by following the links from head, at most fuel of them
RECURSIVE LinkWalk(_, _, _)
LinkWalk(head, ps, fuel) ==
  IF head = NULL \/ fuel = 0 THEN <<>>
  ELSE <<head>> \o LinkWalk(ps[head].next, ps, fuel - 1)

ChannelWithin(c, s, d, a) ==
  LET blend == 255 * d + a * (s - d)
  IN  /\ c \in Bytes
      /\ 255 * c <= blend
      /\ blend - 255 <= 255 * c

\* C15 (as claimed): Composite(src, dst) has alpha src.alpha and each of red, green, blue
\* equal to dst.channel + (src.alpha/255) x (src.channel - dst.channel).
C15_CompositeIsTheBlend ==
  result.kind = "Composite" =>
    LET src == probe.src
        dst == probe.dest
        out == result.value
    IN  /\ out.a = src.a
        /\ 255 * out.r = 255 * dst.r + src.a * (src.r - dst.r)
        /\ 255 * out.g = 255 * dst.g + src.a * (src.g - dst.g)
        /\ 255 * out.b = 255 * dst.b + src.a * (src.b - dst.b)

\* C15 (amended): Composite(src, dst) has alpha src.alpha; each of red, green, blue is a
\* whole 8-bit value at most dst.channel + (src.alpha/255) x (src.channel - dst.channel)
\* and at most 1 below it, exactly the destination channel when src.alpha is 0 and
\* exactly the source channel when src.alpha is 255; the destination's alpha has no
\* effect on the result.
C15_CompositeDropsFraction ==
  result.kind = "Composite" =>
    LET src == probe.src
        dst == probe.dest
        out == result.value
    IN  /\ out.a = src.a
        /\ ChannelWithin(out.r, src.r, dst.r, src.a)
        /\ ChannelWithin(out.g, src.g, dst.g, src.a)
        /\ ChannelWithin(out.b, src.b, dst.b, src.a)
        /\ src.a = 0 => (out.r = dst.r /\ out.g = dst.g /\ out.b = dst.b)
        /\ src.a = 255 => (out.r = src.r /\ out.g = src.g /\ out.b = src.b)
        /\ \A da \in Bytes : Composite(src, [dst EXCEPT !.a = da]) = out

\* a half-transparent source whose blend 63.75 over a destination of other alpha is stored as 63
C15_Witness ==
  /\ result.kind = "Composite"
  /\ probe.src.a = 128 /\ probe.src.r = 127
  /\ probe.dest.a = 0 /\ probe.dest.r = 0
  /\ result.value.a = 128 /\ result.value.r = 63

\* C16: in every state reached from the zero-filled state block each slot's lifetime lies
\* in -1 .. 200.
C16_LifetimeRange ==
  \A i \in Slots : particles[i].lifetime \in -1 .. 200

\* slot 1 has just been spawned at 200 while the never-acquired slot 2 rests at -1
C16_Witness ==
  /\ pc = "simulate" /\ ticks = 2
  /\ particles[0].lifetime = 198
  /\ particles[1].lifetime = 200
  /\ particles[2].lifetime = -1

\* the number of invocations completed since slot i was spawned, in the invocation in progress
Age(i) == ticks - spawnedAt[i]

\* C17: a spawned particle is animated and drawn in the invocation that spawned it and in
\* each of the next 200, entering the one of age k with lifetime 200 - k (the last with
\* 0, left with -1), and is neither animated nor drawn in any later invocation.
C17_ParticleLifespan ==
  [][pc = "simulate" =>
       LET alive == { i \in acquired : Age(i) <= 200 }
       IN  /\ \A i \in alive :
                /\ particles[i].lifetime = 200 - Age(i)
                /\ particles'[i] = [particles[i] EXCEPT !.lifetime = @ - 1,
                                                      !.y = @ + FallOfFrame]
           /\ \A i \in acquired \ alive :
                /\ particles[i].lifetime = -1
                /\ particles'[i] = particles[i]
           /\ buffer'.bitmap = DrawSlots(0, alive, particles', buffer)]_vars

\* the particle spawned in the first invocation has just left its 201st with lifetime -1
C17_Witness ==
  /\ pc = "idle" /\ ticks = 201
  /\ spawnedAt[0] = 0 /\ particles[0].lifetime = -1
  /\ particles[1].lifetime = 1

\* C18: from the zero-filled state block, after k invocations the acquired slots are the
\* indices 0 .. min(N, ceil(k/2)) - 1; the slot taken in the invocation entered with tick
\* counter t is slot t/2, and the free list is empty from the spawn step of invocation
\* number 2N - 1 on and not before.
C18_AcquiredPrefix ==
  /\ pc = "idle" =>
       acquired = 0 .. Min(NumParticles, (ticks + 1) \div 2) - 1
  /\ (pc = "simulate" /\ lastSpawn # NULL) => lastSpawn = ticks \div 2
  /\ (pc = "idle" /\ isInitialized) =>
       (availableParticle = NULL <=> ticks >= 2 * NumParticles - 1)
  /\ (pc = "spawn" /\ ticks = 2 * NumParticles - 2) => availableParticle = NumParticles - 1
  /\ (pc = "simulate" /\ ticks = 2 * NumParticles - 2) => availableParticle = NULL

\* invocation number 2N - 1 has completed and left the pool exhausted
C18_Witness ==
  /\ pc = "idle" /\ ticks = 2 * NumParticles - 1
  /\ acquired = Slots /\ availableParticle = NULL
  /\ lastSpawn = NumParticles - 1

\* the link first-time setup leaves in slot i (the last slot's is never written)
LinkAtInit(i) == IF i = NumParticles - 1 THEN NULL ELSE i + 1

SquareOf(buf, p) ==
  FillRectWrites(buf, p.x - p.radius, p.y - p.radius, p.x + p.radius, p.y + p.radius)

\* C20: from the zero-filled state block, the square the per-slot pass draws for a slot
\* never acquired holds no pixel, and after the pass every pixel of the buffer that is
\* not the background colour lies inside the square of some acquired particle.
C20_OnlyAcquiredVisible ==
  [][pc = "simulate" =>
       /\ \A i \in Slots \ acquired :
            /\ SquareOf(buffer, particles[i]) = {}
            /\ SquareOf(buffer', particles'[i]) = {}
       /\ \A k \in Visible(buffer') :
            buffer'.bitmap[k] # GetColor(Background) =>
              \E i \in acquired : k \in SquareOf(buffer', particles'[i])]_vars

\* after two invocations the particle of slot 0 shows in the buffer, while slot 1, never
\* acquired, has been visited (its lifetime went from 0 to -1)
C20_Witness ==
  /\ pc = "idle" /\ ticks = 2
  /\ acquired = {0}
  /\ particles[1].lifetime = -1 /\ particles[1].y > 0
  /\ \E k \in Visible(buffer) : buffer.bitmap[k] # GetColor(Background)

====
